---- MODULE Spec2Model ----
(***************************************************************************)
(* NDS coordinates and tiles (NDSCoordinate.py, NDSTile.py, NDSBBox.py).   *)
(*                                                                         *)
(* Python integers are unbounded and their bitwise operators work on the   *)
(* infinite two's complement form.  A Python int is modelled here as four  *)
(* limbs <<l1, l2, l3, l4>> in base 2^30, least significant first: the     *)
(* first three lie in 0 .. 2^30 - 1 and the last one is signed, so that    *)
(* the value is l1 + l2 * 2^30 + l3 * 2^60 + l4 * 2^90.  Every value the   *)
(* program computes from the sample inputs lies within -2^119 .. 2^119.    *)
(***************************************************************************)
EXTENDS Integers, FiniteSets, Sequences, TLC

\* Sample inputs lie within MaxOffset of the anchor values (range limits, zero).
MaxOffset == 1

------------------------------------------------------------------------------
(* Python int arithmetic *)

Base == 2^30

\* The limbs of a0 + a1 * Base + a2 * Base^2 + a3 * Base^3, carries propagated.
Norm(a0, a1, a2, a3) ==
    LET t1 == a1 + (a0 \div Base)
        t2 == a2 + (t1 \div Base)
    IN <<a0 % Base, t1 % Base, t2 % Base, a3 + (t2 \div Base)>>

\* A TLA+ integer as a Python int.
FromInt(n) == Norm(n, 0, 0, 0)

Zero == FromInt(0)
One == FromInt(1)
MinusOne == FromInt(-1)

\* Limb i (from 1) of the two's complement form, as a value in 0 .. Base - 1;
\* the limbs above the fourth repeat the sign.
Limb(x, i) ==
    IF i <= 3 THEN x[i]
    ELSE IF i = 4 THEN x[4] % Base
    ELSE IF x[4] < 0 THEN Base - 1 ELSE 0

\* The signed value of the limbs from i upwards, for i >= 4.
Top(x, i) == IF i = 4 THEN x[4] ELSE IF x[4] < 0 THEN -1 ELSE 0

\* Bit k of x in two's complement: x & (1 << k) is not zero.
Bit(x, k) == (Limb(x, (k \div 30) + 1) \div (2^(k % 30))) % 2 = 1

\* 1 << k
Pow2(k) ==
    [i \in 1..4 |-> IF i = (k \div 30) + 1 THEN 2^(k % 30) ELSE 0]

\* The truth table of the bitwise operators &, | and ^
BitOp(op, a, b) ==
    IF op = "and" THEN a /\ b ELSE IF op = "or" THEN a \/ b ELSE a # b

\* A bitwise operator on the n-bit values a and b.  Where one operand is all
\* zeros or all ones the result is 0, the other operand, its complement or
\* all ones; otherwise the two halves are combined.
RECURSIVE LimbOp(_, _, _, _)
LimbOp(op, a, b, n) ==
    LET ones == 2^n - 1
    IN IF b = 0 \/ b = ones
       THEN IF BitOp(op, FALSE, b # 0)
            THEN (IF BitOp(op, TRUE, b # 0) THEN ones ELSE ones - a)
            ELSE (IF BitOp(op, TRUE, b # 0) THEN a ELSE 0)
       ELSE IF a = 0 \/ a = ones
       THEN IF BitOp(op, a # 0, FALSE)
            THEN (IF BitOp(op, a # 0, TRUE) THEN ones ELSE ones - b)
            ELSE (IF BitOp(op, a # 0, TRUE) THEN b ELSE 0)
       ELSE LET h == n \div 2
            IN LimbOp(op, a % (2^h), b % (2^h), h)
               + (2^h) * LimbOp(op, a \div (2^h), b \div (2^h), n - h)

\* A bitwise operator, limb by limb; the last limb carries the sign.
Bitwise(op, x, y) ==
    << LimbOp(op, x[1], y[1], 30),
       LimbOp(op, x[2], y[2], 30),
       LimbOp(op, x[3], y[3], 30),
       LimbOp(op, x[4] % Base, y[4] % Base, 30)
           - (IF BitOp(op, x[4] < 0, y[4] < 0) THEN Base ELSE 0) >>

\* ~x
PyNot(x) == <<Base - 1 - x[1], Base - 1 - x[2], Base - 1 - x[3], -x[4] - 1>>

\* x & y
PyAnd(x, y) == Bitwise("and", x, y)

\* x | y
PyOr(x, y) == Bitwise("or", x, y)

\* x ^ y
PyXor(x, y) == Bitwise("xor", x, y)

\* x << s, for 0 <= s < 120
PyShl(x, s) ==
    LET q == s \div 30
        r == s % 30
        \* limb i of x << r
        part(i) == IF i < 1 THEN 0
                   ELSE ((Limb(x, i) % (2^(30 - r))) * (2^r))
                        + (IF i = 1 THEN 0 ELSE Limb(x, i - 1) \div (2^(30 - r)))
        \* the signed value of the limbs of x << r from i upwards
        h4 == (x[4] * (2^r)) + (Limb(x, 3) \div (2^(30 - r)))
        h3 == part(3) + Base * h4
        h2 == part(2) + Base * h3
        h1 == part(1) + Base * h2
        top == IF q = 0 THEN h4 ELSE IF q = 1 THEN h3 ELSE IF q = 2 THEN h2 ELSE h1
    IN <<part(1 - q), part(2 - q), part(3 - q), top>>

\* x >> s, for s >= 0 (arithmetic shift: floor division by 2^s)
PyShr(x, s) ==
    LET q == s \div 30
        r == s % 30
        part(i) == (Limb(x, i) \div (2^r)) + ((Limb(x, i + 1) % (2^r)) * (2^(30 - r)))
    IN <<part(1 + q), part(2 + q), part(3 + q), Top(x, 4 + q) \div (2^r)>>

\* x + y
PyAdd(x, y) == Norm(x[1] + y[1], x[2] + y[2], x[3] + y[3], x[4] + y[4])

\* x - y
PySub(x, y) == Norm(x[1] - y[1], x[2] - y[2], x[3] - y[3], x[4] - y[4])

\* -x
PyNeg(x) == PySub(Zero, x)

\* x < y
PyLt(x, y) ==
    \/ x[4] < y[4]
    \/ x[4] = y[4] /\ x[3] < y[3]
    \/ x[4] = y[4] /\ x[3] = y[3] /\ x[2] < y[2]
    \/ x[4] = y[4] /\ x[3] = y[3] /\ x[2] = y[2] /\ x[1] < y[1]

\* x <= y
PyLe(x, y) == ~PyLt(y, x)

\* min(x, y)
PyMin(x, y) == IF PyLt(y, x) THEN y ELSE x

\* x // (1 << s)
PyFloorDivPow2(x, s) == PyShr(x, s)

\* The exact product x * n for a TLA+ natural n below 2^31: the sum of x << k
\* over the one-bits k of n in lo..hi.
RECURSIVE MulRange(_, _, _, _)
MulRange(x, n, lo, hi) ==
    IF lo = hi
    THEN IF (n \div (2^lo)) % 2 = 1 THEN PyShl(x, lo) ELSE Zero
    ELSE LET mid == (lo + hi) \div 2
         IN PyAdd(MulRange(x, n, lo, mid), MulRange(x, n, mid + 1, hi))

\* x * n for a TLA+ integer n of magnitude below 2^31
PyMul(x, n) == IF n >= 0 THEN MulRange(x, n, 0, 30) ELSE PyNeg(MulRange(x, -n, 0, 30))

\* Long division of the bits hi..lo (high to low) of a non-negative x by d,
\* entered with remainder rem: the quotient and the remainder.
RECURSIVE DivRange(_, _, _, _, _)
DivRange(x, d, hi, lo, rem) ==
    IF lo = hi
    THEN LET r == 2 * rem + (IF Bit(x, hi) THEN 1 ELSE 0)
         IN IF r >= d THEN [quot |-> Pow2(hi), rem |-> r - d]
                      ELSE [quot |-> Zero, rem |-> r]
    ELSE LET mid == (lo + hi) \div 2
             high == DivRange(x, d, hi, mid + 1, rem)
             low == DivRange(x, d, mid, lo, high.rem)
         IN [quot |-> PyAdd(high.quot, low.quot), rem |-> low.rem]

\* int(x / d) for 0 < d < 2^30: the quotient truncated toward zero
PyTruncDiv(x, d) ==
    IF PyLt(x, Zero)
    THEN PyNeg(DivRange(PyNeg(x), d, 119, 0, 0).quot)
    ELSE DivRange(x, d, 119, 0, 0).quot

\* The sum of 2^j over the j in lo..hi with offset + j in S.
RECURSIVE SumBits(_, _, _, _)
SumBits(S, offset, lo, hi) ==
    IF lo = hi
    THEN IF offset + lo \in S THEN 2^lo ELSE 0
    ELSE LET mid == (lo + hi) \div 2
         IN SumBits(S, offset, lo, mid) + SumBits(S, offset, mid + 1, hi)

\* The int whose one-bits are the positions in S (all below 119): what a loop
\* leaves that starts from 0 and or-s 1 << k into it for every k in S.
OrBits(S) ==
    <<SumBits(S, 0, 0, 29), SumBits(S, 30, 0, 29), SumBits(S, 60, 0, 29),
      SumBits(S, 90, 0, 28)>>

------------------------------------------------------------------------------
(* Outcomes of a call: it returns a value or raises an exception. *)

None == [none |-> TRUE]

Returned(value) == [exc |-> "none", value |-> value]

Raised(exception) == [exc |-> exception, value |-> None]

------------------------------------------------------------------------------
(* NDSCoordinate.py *)

Mask32 == PySub(Pow2(32), One)

\* The second step of to_signed_32bit: the sign is extended from bit 31.
SignExtend32(masked) ==
    IF Bit(masked, 31) THEN PyOr(masked, PyNot(Mask32)) ELSE masked

to_signed_32bit(value) == SignExtend32(PyAnd(value, Mask32))

MAX_LONGITUDE == PySub(Pow2(31), One)
MIN_LONGITUDE == PyNeg(Pow2(31))
MAX_LATITUDE == PyFloorDivPow2(MAX_LONGITUDE, 1)
MIN_LATITUDE == PyFloorDivPow2(MIN_LONGITUDE, 1)

LONGITUDE_RANGE == PySub(MAX_LONGITUDE, MIN_LONGITUDE)
LATITUDE_RANGE == PySub(MAX_LATITUDE, MIN_LATITUDE)

\* verify with the latitude check left out
verify_longitude_only(lon, lat) ==
    IF PyLt(lon, MIN_LONGITUDE) \/ PyLt(MAX_LONGITUDE, lon) THEN "ValueError"
    ELSE "none"

\* verify(lon, lat): the exception it raises, "none" when it returns.
verify(lon, lat) ==
    IF PyLt(lon, MIN_LONGITUDE) \/ PyLt(MAX_LONGITUDE, lon) THEN "ValueError"
    ELSE IF PyLt(lat, MIN_LATITUDE) \/ PyLt(MAX_LATITUDE, lat) THEN "ValueError"
    ELSE "none"

Coordinate(lon, lat) == [longitude |-> lon, latitude |-> lat]

\* The end of the two integer constructors: verify, then set the fields.
Verified(lon, lat) ==
    IF verify(lon, lat) # "none"
    THEN Raised(verify(lon, lat))
    ELSE Returned(Coordinate(lon, lat))

\* The clamp to the maxima that precedes it.
Clamped(lon, lat) ==
    Verified(PyMin(lon, MAX_LONGITUDE), PyMin(lat, MAX_LATITUDE))

\* NDSCoordinate(int longitude, int latitude)
NDSCoordinate_units(longitude, latitude) ==
    Clamped(to_signed_32bit(longitude), to_signed_32bit(latitude))

\* The conversion rounded down instead of toward zero
DegreesToUnits_floor(h, span, range) ==
    IF h >= 0
    THEN PyTruncDiv(PyMul(range, h), 2 * span)
    ELSE PyNeg(PyTruncDiv(PyAdd(PyMul(range, -h), FromInt(2 * span - 1)), 2 * span))

\* A float argument in degrees is given as a whole number h of half degrees
\* (the float h / 2), which a double holds exactly.  For every such float in
\* range the double expression degrees / span * range truncates to the same
\* integer as the exact quotient h * range / (2 * span).
DegreesToUnits(h, span, range) == PyTruncDiv(PyMul(range, h), 2 * span)

\* NDSCoordinate(double lon, double lat)
NDSCoordinate_degrees(lon, lat) ==
    IF lon < -360 \/ lon > 360 THEN Raised("ValueError")
    ELSE IF lat < -180 \/ lat > 180 THEN Raised("ValueError")
    ELSE Returned(Coordinate(DegreesToUnits(lon, 360, LONGITUDE_RANGE),
                             DegreesToUnits(lat, 180, LATITUDE_RANGE)))

\* The decoding loop of the Morton constructor: lat takes the odd bits below
\* position 62, lon the even bits up to position 62.
MortonLatitude(code) ==
    OrBits({pos \in 0..31 : pos < 31 /\ Bit(code, pos * 2 + 1)})

MortonLongitude(code) == OrBits({pos \in 0..31 : Bit(code, pos * 2)})

\* The decoding without the extension of the latitude's sign
ExtendLatitude_unextended(lat) == lat

\* if lat & (1 << 30): lat |= 1 << 31
ExtendLatitude(lat) == IF Bit(lat, 30) THEN PyOr(lat, Pow2(31)) ELSE lat

\* NDSCoordinate(long ndsMortonCoordinates)
NDSCoordinate_morton(nds_morton_coordinates) ==
    Clamped(to_signed_32bit(MortonLongitude(nds_morton_coordinates)),
            to_signed_32bit(ExtendLatitude(MortonLatitude(nds_morton_coordinates))))

\* add with the latitude offset left out
add_longitude_only(self, delta_longitude, delta_latitude) ==
    NDSCoordinate_units(PyAdd(self.longitude, delta_longitude), self.latitude)

\* add(self, delta_longitude, delta_latitude)
add(self, delta_longitude, delta_latitude) ==
    NDSCoordinate_units(PyAdd(self.longitude, delta_longitude),
                        PyAdd(self.latitude, delta_latitude))

\* get_morton_code without the sign bit of the longitude at position 62
get_morton_code_unsigned(self) ==
    LET lonPart == {2 * pos : pos \in {q \in 0..30 : Bit(self.longitude, q)}}
        latPart == {2 * pos + 1 : pos \in {q \in 0..30 : Bit(self.latitude, q)}}
        latSign == IF PyLt(self.latitude, Zero) THEN {61} ELSE {}
    IN OrBits(lonPart \cup latPart \cup latSign)

\* get_morton_code(self)
get_morton_code(self) ==
    LET lonPart == {2 * pos : pos \in {q \in 0..30 : Bit(self.longitude, q)}}
        latPart == {2 * pos + 1 : pos \in {q \in 0..30 :
                        q < 31 /\ Bit(self.latitude, q)}}
        lonSign == IF PyLt(self.longitude, Zero) THEN {62} ELSE {}
        latSign == IF PyLt(self.latitude, Zero) THEN {61} ELSE {}
    IN OrBits(lonPart \cup latPart \cup lonSign \cup latSign)

------------------------------------------------------------------------------
(* WGS84Coordinate.py, NDSBBox.py *)

\* WGS84Coordinate(longitude, latitude), both floats given in half degrees
WGS84Coordinate(longitude, latitude) ==
    IF longitude < -360 \/ longitude > 360 THEN Raised("ValueError")
    ELSE IF latitude < -180 \/ latitude > 180 THEN Raised("ValueError")
    ELSE Returned(Coordinate(longitude, latitude))

NDSBBox(north, east, south, west) ==
    [north |-> north, east |-> east, south |-> south, west |-> west]

WEST_HEMISPHERE == NDSBBox(MAX_LATITUDE, Zero, MIN_LATITUDE, MIN_LONGITUDE)
EAST_HEMISPHERE == NDSBBox(MAX_LATITUDE, MAX_LONGITUDE, MIN_LATITUDE, Zero)

\* center with the halves rounded up
center_rounded_up(self) ==
    NDSCoordinate_units(PyFloorDivPow2(PyAdd(PyAdd(self.east, self.west), One), 1),
                        PyFloorDivPow2(PyAdd(PyAdd(self.north, self.south), One), 1))

\* NDSBBox.center(self)
center(self) ==
    NDSCoordinate_units(PyFloorDivPow2(PyAdd(self.east, self.west), 1),
                        PyFloorDivPow2(PyAdd(self.north, self.south), 1))

------------------------------------------------------------------------------
(* NDSTile.py *)

MAX_LEVEL == 15

Tile(level, tile_number, cached) ==
    [level |-> level, tile_number |-> tile_number, center |-> cached]

\* extract_level(self, packed_id): the loop from lvl downwards
RECURSIVE extract_level_from(_, _)
extract_level_from(packed_id, lvl) ==
    IF lvl < 0 THEN -1
    ELSE IF Bit(packed_id, 16 + lvl) THEN lvl
    ELSE IF PyLt(packed_id, Zero) /\ lvl = MAX_LEVEL THEN MAX_LEVEL
    ELSE extract_level_from(packed_id, lvl - 1)

\* extract_level with the loop started one level too low
extract_level_short(packed_id) == extract_level_from(packed_id, MAX_LEVEL - 1)

extract_level(packed_id) == extract_level_from(packed_id, MAX_LEVEL)

\* The packed id constructor once the level is extracted
PackedTile(packed_id, level) ==
    IF level < 0 THEN Raised("ValueError")
    ELSE Returned(Tile(level, PyXor(packed_id, Pow2(16 + level)), None))

\* NDSTile(packed_id)
NDSTile_packed(packed_id) == PackedTile(packed_id, extract_level(packed_id))

\* NDSTile(level, nr) with the upper limit of the tile number off by one
NDSTile_level_nr_loose(level, nr) ==
    IF level < 0 \/ level > MAX_LEVEL THEN Raised("ValueError")
    ELSE IF PyLt(nr, Zero) THEN Raised("ValueError")
    ELSE IF PyLt(Pow2(2 * level + 1), nr) THEN Raised("ValueError")
    ELSE Returned(Tile(level, nr, None))

\* NDSTile(level, nr)
NDSTile_level_nr(level, nr) ==
    IF level < 0 \/ level > MAX_LEVEL THEN Raised("ValueError")
    ELSE IF PyLt(nr, Zero) THEN Raised("ValueError")
    ELSE IF PyLt(PySub(Pow2(2 * level + 1), One), nr) THEN Raised("ValueError")
    ELSE Returned(Tile(level, nr, None))

\* morton >> (32 + (MAX_LEVEL - level) * 2); a negative shift count raises
TileNumberOf(morton, level) ==
    IF 32 + (MAX_LEVEL - level) * 2 < 0 THEN Raised("ValueError")
    ELSE Returned(PyShr(morton, 32 + (MAX_LEVEL - level) * 2))

\* The coordinate constructors once the tile number is computed
NumberedTile(level, nr) ==
    IF nr.exc # "none" THEN Raised(nr.exc)
    ELSE Returned(Tile(level, nr.value, None))

\* NDSTile(level, NDSCoordinate)
NDSTile_level_coord(level, c) ==
    NumberedTile(level, TileNumberOf(get_morton_code(c), level))

\* The WGS84 constructor once the coordinate is converted
ConvertedTile(level, nds_coord) ==
    IF nds_coord.exc # "none" THEN Raised(nds_coord.exc)
    ELSE NDSTile_level_coord(level, nds_coord.value)

\* NDSTile(level, WGS84Coordinate)
NDSTile_level_wgs84(level, wgs) ==
    ConvertedTile(level, NDSCoordinate_degrees(wgs.longitude, wgs.latitude))

\* self.tile_number == nr
SameNumber(self, nr) ==
    IF nr.exc # "none" THEN Raised(nr.exc)
    ELSE Returned(self.tile_number = nr.value)

\* contains with the shift of the level above
contains_shallow(self, c) ==
    SameNumber(self, TileNumberOf(get_morton_code(c), self.level - 1))

\* contains(self, c)
contains(self, c) ==
    SameNumber(self, TileNumberOf(get_morton_code(c), self.level))

\* packed_id with the marker one bit too low
packed_id_low_marker(self) ==
    IF 15 + self.level < 0 THEN Raised("ValueError")
    ELSE Returned(PyAdd(self.tile_number, Pow2(15 + self.level)))

\* packed_id(self)
packed_id(self) ==
    IF 16 + self.level < 0 THEN Raised("ValueError")
    ELSE Returned(PyAdd(self.tile_number, Pow2(16 + self.level)))

\* NDSTile(p) for the packed id p that packed_id() gave, if it gave one
Repacked(p) == IF p.exc # "none" THEN Raised(p.exc) ELSE NDSTile_packed(p.value)

\* south_west_as_morton(self)
south_west_as_morton(self) ==
    PyShl(self.tile_number, 32 + (MAX_LEVEL - self.level) * 2)

\* 1 if value < 0 else 0
NegativeExtra(value) == IF PyLt(value, Zero) THEN One ELSE Zero

\* corner + range // (1 << shift) + (1 if corner < 0 else 0)
Offset(corner, range, shift) ==
    PyAdd(PyAdd(corner, PyFloorDivPow2(range, shift)), NegativeExtra(corner))

\* The outcome of get_center and the center field it leaves
CenterResult(out, cached) == [out |-> out, center |-> cached]

\* self.center = NDSCoordinate(clon, clat); return self.center
StoredCenter(self, made) ==
    CenterResult(made, IF made.exc = "none" THEN made.value ELSE self.center)

\* get_center with the shifts of get_bbox: the whole span is added
CenterFromSouthWest_whole_span(self, sw) ==
    IF sw.exc # "none" THEN CenterResult(Raised(sw.exc), self.center)
    ELSE IF self.level < 0 THEN CenterResult(Raised("ValueError"), self.center)
    ELSE StoredCenter(self,
             NDSCoordinate_units(
                 Offset(sw.value.longitude, LONGITUDE_RANGE, self.level + 1),
                 Offset(sw.value.latitude, LATITUDE_RANGE, self.level)))

\* get_center at level 1 and above, from the decoded south-west corner.
\* A shift by a negative count (1 << n, n < 0) raises ValueError, here and in
\* get_bbox and get_tile_grid_coordinates.
CenterFromSouthWest(self, sw) ==
    IF sw.exc # "none" THEN CenterResult(Raised(sw.exc), self.center)
    ELSE IF self.level + 1 < 0 THEN CenterResult(Raised("ValueError"), self.center)
    ELSE StoredCenter(self,
             NDSCoordinate_units(
                 Offset(sw.value.longitude, LONGITUDE_RANGE, self.level + 2),
                 Offset(sw.value.latitude, LATITUDE_RANGE, self.level + 1)))

\* get_center(self)
get_center(self) ==
    IF self.center = None
    THEN IF self.level = 0
         THEN IF self.tile_number = Zero
              THEN CenterResult(
                       NDSCoordinate_units(PyFloorDivPow2(MAX_LONGITUDE, 1), Zero),
                       self.center)
              ELSE CenterResult(
                       NDSCoordinate_units(PyFloorDivPow2(MIN_LONGITUDE, 1), Zero),
                       self.center)
         ELSE CenterFromSouthWest(self,
                  NDSCoordinate_morton(south_west_as_morton(self)))
    ELSE CenterResult(Returned(self.center), self.center)

\* get_bbox at level 1 and above, from the decoded south-west corner
BBoxFromSouthWest(self, sw) ==
    IF sw.exc # "none" THEN Raised(sw.exc)
    ELSE IF self.level < 0 THEN Raised("ValueError")
    ELSE Returned(NDSBBox(Offset(sw.value.latitude, LATITUDE_RANGE, self.level),
                          Offset(sw.value.longitude, LONGITUDE_RANGE, self.level + 1),
                          sw.value.latitude,
                          sw.value.longitude))

\* get_bbox with the two hemispheres of level 0 exchanged
get_bbox_swapped(self) ==
    IF self.level = 0
    THEN Returned(IF self.tile_number = Zero THEN WEST_HEMISPHERE ELSE EAST_HEMISPHERE)
    ELSE BBoxFromSouthWest(self, NDSCoordinate_morton(south_west_as_morton(self)))

\* get_bbox(self)
get_bbox(self) ==
    IF self.level = 0
    THEN Returned(IF self.tile_number = Zero THEN EAST_HEMISPHERE ELSE WEST_HEMISPHERE)
    ELSE BBoxFromSouthWest(self, NDSCoordinate_morton(south_west_as_morton(self)))

\* The remapping left out: the value as extracted
Wrapped_plain(value, half, full) == value

\* value if value < half else value - full
Wrapped(value, half, full) == IF PyLt(value, half) THEN value ELSE PySub(value, full)

\* get_tile_grid_coordinates with the even bits taken as row and the odd
\* bits as col
get_tile_grid_coordinates_swapped(self) ==
    IF self.level = 0
    THEN Returned(IF self.tile_number = Zero THEN <<Zero, Zero>> ELSE <<MinusOne, Zero>>)
    ELSE IF self.level < 0 THEN Raised("ValueError")
    ELSE Returned(<<
        Wrapped(OrBits({i \in 0..self.level : Bit(self.tile_number, 2 * i + 1)}),
                Pow2(self.level), Pow2(self.level + 1)),
        Wrapped(OrBits({i \in 0..self.level : Bit(self.tile_number, 2 * i)}),
                Pow2(self.level - 1), Pow2(self.level)) >>)

\* get_tile_grid_coordinates(self): [col, row]
get_tile_grid_coordinates(self) ==
    IF self.level = 0
    THEN Returned(IF self.tile_number = Zero THEN <<Zero, Zero>> ELSE <<MinusOne, Zero>>)
    ELSE IF self.level < 0 THEN Raised("ValueError")
    ELSE Returned(<<
        Wrapped(OrBits({i \in 0..self.level : Bit(self.tile_number, 2 * i)}),
                Pow2(self.level), Pow2(self.level + 1)),
        Wrapped(OrBits({i \in 0..self.level : Bit(self.tile_number, 2 * i + 1)}),
                Pow2(self.level - 1), Pow2(self.level)) >>)

------------------------------------------------------------------------------
(* Sample inputs *)

Offsets == (-MaxOffset)..MaxOffset

Near(anchors) == {PyAdd(a, FromInt(d)) : a \in anchors, d \in Offsets}

\* Integer arguments of NDSCoordinate(longitude, latitude); 2^32 wraps to 0.
LongitudeInputs == Near({MIN_LONGITUDE, Zero, MAX_LONGITUDE, Pow2(32)})
LatitudeInputs == Near({MIN_LATITUDE, Zero, MAX_LATITUDE, Pow2(32)})

\* Float arguments in half degrees: the range limits and (90.0, 45.0).
HalfDegrees(limit) == {-limit + d : d \in Offsets} \cup {limit + d : d \in Offsets}
LongitudeDegrees == HalfDegrees(360) \cup {-180, 0, 180}
LatitudeDegrees == HalfDegrees(180) \cup {0, 90}

\* Float arguments of WGS84Coordinate in half degrees: (90.0, 45.0) and
\* (-90.0, 45.0), the corners of the range, and values out of range.
TileDegrees ==
    {<<180, 90>>, <<-180, 90>>, <<360, 180>>, <<-360, -180>>, <<1, -1>>,
     <<361, 0>>, <<0, -181>>}

\* Morton code arguments: single marker bits, all ones, a negative int.
MortonInputs ==
    {Zero, Pow2(60), Pow2(61), Pow2(62), Pow2(63), OrBits(0..63), MinusOne,
     OrBits(0..62), OrBits({0, 3, 4, 9, 33, 40, 59, 62})}

\* Deltas of add: small ones, and two that leave the 32 bit range
Deltas == {FromInt(d) : d \in Offsets} \cup {Pow2(31), PyNeg(Pow2(32))}

\* The steps from a coordinate to its four neighbours
Steps == {<<One, Zero>>, <<MinusOne, Zero>>, <<Zero, One>>, <<Zero, MinusOne>>}

\* Levels, valid and not; the shift count is negative at level 32 in the
\* constructors and at level -17 in packed_id.
Levels == (-1)..(MAX_LEVEL + 1) \cup {32, -17}

\* The largest tile number of a level
MaxTileNumber(level) == PySub(Pow2(2 * level + 1), One)

\* The level whose tile numbers are tried: the given one when it is valid
SampledLevel(level) == IF level \in 0..MAX_LEVEL THEN level ELSE 0

\* Tile numbers around the limits of a level, and the first one of the
\* western half (4 at level 1)
TileNumberInputs(level) ==
    Near({Zero, MaxTileNumber(SampledLevel(level))})
        \cup {Pow2(2 * SampledLevel(level))}

\* Packed ids: marker bits with tile numbers in and out of range, no marker,
\* more than 32 bits, negative with and without bit 31.
PackedInputs ==
    {One, FromInt(65535), FromInt(65536), FromInt(65537), FromInt(65538),
     FromInt(131072), FromInt(131079), FromInt(131080), FromInt(262154),
     FromInt(539636700), Pow2(31), PyAdd(Pow2(31), FromInt(1000000)),
     PySub(Pow2(32), One), Pow2(32), PyAdd(Pow2(32), Pow2(16)),
     MinusOne, MIN_LONGITUDE, FromInt(-65536), PyNot(Pow2(31)), PyNeg(Pow2(32))}

\* A tile is built from (level, nr) beside a held coordinate up to this level.
MaxFreeLevel == 0

------------------------------------------------------------------------------
(* The program: it holds at most one coordinate and one tile, calls their  *)
(* operations and receives what they return or raise in ret.               *)

VARIABLES coord, tile, ret

vars == <<coord, tile, ret>>

Idle == [op |-> "idle"]

Init == coord = None /\ tile = None /\ ret = Idle

\* The object a constructor call leaves: the new one, or none when it raised.
Made(out) == IF out.exc = "none" THEN out.value ELSE None

NewCoordUnits(longitude, latitude) ==
    /\ ret = Idle /\ coord = None /\ tile = None
    /\ ret' = [op |-> "NDSCoordinate_units", longitude |-> longitude,
               latitude |-> latitude,
               out |-> NDSCoordinate_units(longitude, latitude)]
    /\ coord' = Made(ret'.out)
    /\ UNCHANGED tile

NewCoordDegrees(lon, lat) ==
    /\ ret = Idle /\ coord = None /\ tile = None
    /\ ret' = [op |-> "NDSCoordinate_degrees", lon |-> lon, lat |-> lat,
               out |-> NDSCoordinate_degrees(lon, lat)]
    /\ coord' = Made(ret'.out)
    /\ UNCHANGED tile

NewCoordMorton(code) ==
    /\ ret = Idle /\ coord = None /\ tile = None
    /\ ret' = [op |-> "NDSCoordinate_morton", code |-> code,
               out |-> NDSCoordinate_morton(code)]
    /\ coord' = Made(ret'.out)
    /\ UNCHANGED tile

\* c.add(delta_longitude, delta_latitude)
Add(delta_longitude, delta_latitude) ==
    /\ ret = Idle /\ coord # None /\ tile = None
    /\ ret' = [op |-> "add", delta_longitude |-> delta_longitude,
               delta_latitude |-> delta_latitude,
               out |-> add(coord, delta_longitude, delta_latitude)]
    /\ UNCHANGED <<coord, tile>>

\* c.get_morton_code()
GetMortonCode ==
    /\ ret = Idle /\ coord # None /\ tile = None
    /\ ret' = [op |-> "get_morton_code", out |-> Returned(get_morton_code(coord))]
    /\ UNCHANGED <<coord, tile>>

\* NDSCoordinate(c.get_morton_code())
MortonRoundTrip ==
    /\ ret = Idle /\ coord # None /\ tile = None
    /\ ret' = [op |-> "morton_round_trip",
               out |-> NDSCoordinate_morton(get_morton_code(coord))]
    /\ UNCHANGED <<coord, tile>>

NewTilePacked(packed) ==
    /\ ret = Idle /\ tile = None /\ coord = None
    /\ ret' = [op |-> "NDSTile_packed", packed_id |-> packed,
               out |-> NDSTile_packed(packed)]
    /\ tile' = Made(ret'.out)
    /\ UNCHANGED coord

NewTileLevelNr(level, nr) ==
    /\ ret = Idle /\ tile = None
    /\ coord # None => level <= MaxFreeLevel
    /\ ret' = [op |-> "NDSTile_level_nr", level |-> level, nr |-> nr,
               out |-> NDSTile_level_nr(level, nr)]
    /\ tile' = Made(ret'.out)
    /\ UNCHANGED coord

\* NDSTile(level, c) for the held coordinate c
NewTileLevelCoord(level) ==
    /\ ret = Idle /\ tile = None /\ coord # None
    /\ ret' = [op |-> "NDSTile_level_coord", level |-> level, c |-> coord,
               out |-> NDSTile_level_coord(level, coord)]
    /\ tile' = Made(ret'.out)
    /\ UNCHANGED coord

\* NDSTile(level, WGS84Coordinate(lon, lat)): the tile constructor runs when
\* WGS84Coordinate has returned.
NewTileLevelWGS84(level, lon, lat) ==
    /\ ret = Idle /\ tile = None /\ coord = None
    /\ ret' = [op |-> "NDSTile_level_wgs84", level |-> level, lon |-> lon,
               lat |-> lat,
               out |-> IF WGS84Coordinate(lon, lat).exc # "none"
                       THEN Raised(WGS84Coordinate(lon, lat).exc)
                       ELSE NDSTile_level_wgs84(level, WGS84Coordinate(lon, lat).value)]
    /\ tile' = Made(ret'.out)
    /\ UNCHANGED coord

\* t.contains(c) for the held coordinate c
Contains ==
    /\ ret = Idle /\ tile # None /\ coord # None
    /\ ret' = [op |-> "contains", c |-> coord, out |-> contains(tile, coord)]
    /\ UNCHANGED <<coord, tile>>

\* t.contains(c) for a coordinate c that add returned
Probe(c) ==
    /\ c.exc = "none"
    /\ ret' = [op |-> "contains", c |-> c.value, out |-> contains(tile, c.value)]

\* t.contains(c.add(delta_longitude, delta_latitude)): a neighbour of c
ContainsNeighbour(delta_longitude, delta_latitude) ==
    /\ ret = Idle /\ tile # None /\ coord # None
    /\ Probe(add(coord, delta_longitude, delta_latitude))
    /\ UNCHANGED <<coord, tile>>

\* The caller drops the coordinate and keeps the tile.  The tile's own
\* operations below read no coordinate and are called once it is dropped.
DropCoordinate ==
    /\ ret = Idle /\ tile # None /\ coord # None
    /\ coord' = None
    /\ UNCHANGED <<tile, ret>>

\* t.packed_id()
PackedId ==
    /\ ret = Idle /\ tile # None /\ coord = None
    /\ ret' = [op |-> "packed_id", out |-> packed_id(tile)]
    /\ UNCHANGED <<coord, tile>>

\* NDSTile(t.packed_id())
PackedRoundTrip ==
    /\ ret = Idle /\ tile # None /\ coord = None
    /\ ret' = [op |-> "packed_round_trip", out |-> Repacked(packed_id(tile))]
    /\ UNCHANGED <<coord, tile>>

\* t.get_center()
GetCenter ==
    /\ ret = Idle /\ tile # None /\ coord = None
    /\ ret' = [op |-> "get_center", out |-> get_center(tile).out]
    /\ tile' = [tile EXCEPT !.center = get_center(tile).center]
    /\ UNCHANGED coord

\* t.get_bbox()
GetBBox ==
    /\ ret = Idle /\ tile # None /\ coord = None
    /\ ret' = [op |-> "get_bbox", out |-> get_bbox(tile)]
    /\ UNCHANGED <<coord, tile>>

\* t.get_tile_grid_coordinates()
GetTileGridCoordinates ==
    /\ ret = Idle /\ tile # None /\ coord = None
    /\ ret' = [op |-> "get_tile_grid_coordinates",
               out |-> get_tile_grid_coordinates(tile)]
    /\ UNCHANGED <<coord, tile>>

\* The caller takes what the call returned or raised.
Return ==
    /\ ret # Idle
    /\ ret' = Idle
    /\ UNCHANGED <<coord, tile>>

\* The caller drops its objects.
Discard ==
    /\ ret = Idle
    /\ coord # None \/ tile # None
    /\ coord' = None /\ tile' = None
    /\ UNCHANGED ret

Next ==
    \/ \E longitude \in LongitudeInputs, latitude \in LatitudeInputs :
           NewCoordUnits(longitude, latitude)
    \/ \E lon \in LongitudeDegrees, lat \in LatitudeDegrees : NewCoordDegrees(lon, lat)
    \/ \E code \in MortonInputs : NewCoordMorton(code)
    \/ \E dlon \in Deltas, dlat \in Deltas : Add(dlon, dlat)
    \/ GetMortonCode
    \/ MortonRoundTrip
    \/ \E packed \in PackedInputs : NewTilePacked(packed)
    \/ \E level \in Levels : \E nr \in TileNumberInputs(level) : NewTileLevelNr(level, nr)
    \/ \E level \in Levels : NewTileLevelCoord(level)
    \/ \E level \in Levels, wgs \in TileDegrees : NewTileLevelWGS84(level, wgs[1], wgs[2])
    \/ Contains
    \/ \E step \in Steps : ContainsNeighbour(step[1], step[2])
    \/ DropCoordinate
    \/ PackedId
    \/ PackedRoundTrip
    \/ GetCenter
    \/ GetBBox
    \/ GetTileGridCoordinates
    \/ Return
    \/ Discard

Spec == Init /\ [][Next]_vars

------------------------------------------------------------------------------
(* Properties *)

\* The coordinate domain: longitude in [-2^31, 2^31 - 1], latitude in
\* [-2^30, 2^30 - 1]
InDomain(c) ==
    /\ PyLe(PyNeg(Pow2(31)), c.longitude) /\ PyLt(c.longitude, Pow2(31))
    /\ PyLe(PyNeg(Pow2(30)), c.latitude) /\ PyLt(c.latitude, Pow2(30))

\* The tile range: level in 0..15, tile number in 0 .. 2^(2*level+1) - 1
ValidTile(t) ==
    /\ t.level \in 0..MAX_LEVEL
    /\ PyLe(Zero, t.tile_number)
    /\ PyLe(t.tile_number, MaxTileNumber(t.level))

\* The marker bit positions 16..31 that are set in a packed id
MarkerBits(packed) == {k \in 16..31 : Bit(packed, k)}

Highest(S) == CHOOSE k \in S : \A j \in S : j <= k

\* C1: Morton round trip.  For every coordinate in the domain, the
\* constructor applied to its get_morton_code() returns, and the result has
\* the same longitude and latitude.
C1_MortonRoundTrip ==
    (ret.op = "morton_round_trip" /\ InDomain(coord))
        => ret.out = Returned(coord)

\* The round trip of (MIN_LONGITUDE, MIN_LATITUDE) has returned.
C1_Witness ==
    /\ ret.op = "morton_round_trip"
    /\ coord = Coordinate(MIN_LONGITUDE, MIN_LATITUDE)
    /\ ret.out.exc = "none"

\* C2: packed id round trip.  For every tile with level in 0..15 and tile
\* number in 0 .. 2^(2*level+1) - 1, NDSTile(t.packed_id()) returns a tile of
\* the same level and tile number.
C2_PackedRoundTrip ==
    (ret.op = "packed_round_trip" /\ ValidTile(tile))
        => /\ ret.out.exc = "none"
           /\ ret.out.value.level = tile.level
           /\ ret.out.value.tile_number = tile.tile_number

\* The round trip of the last tile of level 15 has returned.
C2_Witness ==
    /\ ret.op = "packed_round_trip"
    /\ tile.level = MAX_LEVEL
    /\ tile.tile_number = MaxTileNumber(MAX_LEVEL)
    /\ ret.out.exc = "none"

\* C3: containment consistency.  For every level in 0..15 and coordinate c,
\* NDSTile(level, c) returns a tile with a tile number in range, and a tile
\* of that level contains c exactly when its tile number is the one of
\* NDSTile(level, c): that tile contains c and no other one does.
C3_Containment ==
    /\ (ret.op = "NDSTile_level_coord" /\ ret.level \in 0..MAX_LEVEL)
           => ret.out.exc = "none" /\ ValidTile(ret.out.value)
    /\ (ret.op = "contains" /\ tile.level \in 0..MAX_LEVEL)
           => ret.out = Returned(tile.tile_number
                  = NDSTile_level_coord(tile.level, ret.c).value.tile_number)

\* A tile of level 15 was asked for the held coordinate and contains it.
C3_Witness ==
    /\ ret.op = "contains"
    /\ tile.level = MAX_LEVEL
    /\ ret.c = coord
    /\ ret.out = Returned(TRUE)

\* C4: NDSTile(level, nr) raises exactly when level < 0, level > 15, nr < 0
\* or nr > 2^(2*level+1) - 1; otherwise the tile holds the given level and
\* tile number.
C4_LevelNumberConstruction ==
    ret.op = "NDSTile_level_nr"
        => IF \/ ret.level < 0
              \/ ret.level > 15
              \/ PyLt(ret.nr, Zero)
              \/ PyLt(MaxTileNumber(ret.level), ret.nr)
           THEN ret.out.exc # "none" /\ tile = None
           ELSE /\ ret.out.exc = "none"
                /\ tile = ret.out.value
                /\ tile.level = ret.level
                /\ tile.tile_number = ret.nr

\* NDSTile(1, 8) has raised.
C4_Witness ==
    /\ ret.op = "NDSTile_level_nr"
    /\ ret.level = 1
    /\ ret.nr = FromInt(8)
    /\ ret.out.exc = "ValueError"

\* C5: level extraction.  A negative packed id gives level 15.  A
\* non-negative packed id with none of the bits 16..31 set raises and leaves
\* no tile; with one set, the level is the position of the highest such bit
\* minus 16 and the tile number is the packed id with that bit cleared.
C5_LevelExtraction ==
    ret.op = "NDSTile_packed"
        => IF PyLt(ret.packed_id, Zero)
           THEN ret.out.exc = "none" /\ ret.out.value.level = 15
           ELSE IF MarkerBits(ret.packed_id) = {}
           THEN ret.out.exc # "none" /\ tile = None
           ELSE /\ ret.out.exc = "none"
                /\ ret.out.value.level = Highest(MarkerBits(ret.packed_id)) - 16
                /\ ret.out.value.tile_number
                       = PySub(ret.packed_id,
                               Pow2(Highest(MarkerBits(ret.packed_id))))

\* NDSTile(539636700), with several of the bits 16..31 set, gave level 13.
C5_Witness ==
    /\ ret.op = "NDSTile_packed"
    /\ ret.packed_id = FromInt(539636700)
    /\ Cardinality(MarkerBits(ret.packed_id)) > 1
    /\ ret.out.exc = "none"
    /\ ret.out.value.level = 13

\* C6: every tile that NDSTile(packed_id) returns has its level in 0..15
\* and its tile number in 0 .. 2^(2*level+1) - 1.
C6_PackedTileInvariant ==
    (ret.op = "NDSTile_packed" /\ ret.out.exc = "none")
        => ValidTile(ret.out.value)

\* C7: NDSTile(level, coordinate), for an NDS or a WGS84 coordinate, raises
\* whenever level is outside 0..15.
C7_LevelCoordinateRejects ==
    (/\ ret.op \in {"NDSTile_level_coord", "NDSTile_level_wgs84"}
     /\ ret.level \notin 0..15)
        => ret.out.exc # "none"

\* C8: every coordinate that a constructor or add returns is in the domain,
\* and so is every coordinate held; NDSCoordinate(longitude, latitude) with a
\* latitude whose 32 bit value is below -2^30 raises and leaves no coordinate.
C8_CoordinateDomain ==
    /\ coord # None => InDomain(coord)
    /\ (/\ ret.op \in {"NDSCoordinate_units", "NDSCoordinate_degrees",
                       "NDSCoordinate_morton", "add", "morton_round_trip"}
        /\ ret.out.exc = "none")
           => InDomain(ret.out.value)
    /\ (/\ ret.op = "NDSCoordinate_units"
        /\ PyLt(to_signed_32bit(ret.latitude), PyNeg(Pow2(30))))
           => ret.out.exc # "none" /\ coord = None

\* NDSCoordinate(0, -2^30 - 1) has raised.
C8_Witness ==
    /\ ret.op = "NDSCoordinate_units"
    /\ ret.longitude = Zero
    /\ ret.latitude = PySub(PyNeg(Pow2(30)), One)
    /\ ret.out.exc = "ValueError"

\* C9: hemisphere partition.  Tile (0, 0) contains c exactly when
\* c.longitude >= 0 and tile (0, 1) exactly when c.longitude < 0; NDSTile(0, c)
\* has tile number 0 for c.longitude >= 0 and 1 for c.longitude < 0.
C9_HemispherePartition ==
    /\ (ret.op = "contains" /\ tile.level = 0 /\ tile.tile_number = Zero)
           => ret.out = Returned(PyLe(Zero, ret.c.longitude))
    /\ (ret.op = "contains" /\ tile.level = 0 /\ tile.tile_number = One)
           => ret.out = Returned(PyLt(ret.c.longitude, Zero))
    /\ (ret.op = "NDSTile_level_coord" /\ ret.level = 0)
           => /\ ret.out.exc = "none"
              /\ ret.out.value.tile_number
                     = (IF PyLe(Zero, ret.c.longitude) THEN Zero ELSE One)

\* Tile (0, 1) was asked for a coordinate of longitude -1 at the lowest
\* latitude and contains it.
C9_Witness ==
    /\ ret.op = "contains"
    /\ tile.level = 0 /\ tile.tile_number = One
    /\ ret.c = Coordinate(MinusOne, MIN_LATITUDE)
    /\ ret.out = Returned(TRUE)

\* C10: get_bbox() of tile (0, 0) is (MAX_LATITUDE, MAX_LONGITUDE,
\* MIN_LATITUDE, 0) and get_bbox() of tile (0, 1) is (MAX_LATITUDE, 0,
\* MIN_LATITUDE, MIN_LONGITUDE), at every call.
C10_LevelZeroBBox ==
    /\ (ret.op = "get_bbox" /\ tile.level = 0 /\ tile.tile_number = Zero)
           => ret.out = Returned([north |-> MAX_LATITUDE, east |-> MAX_LONGITUDE,
                                  south |-> MIN_LATITUDE, west |-> Zero])
    /\ (ret.op = "get_bbox" /\ tile.level = 0 /\ tile.tile_number = One)
           => ret.out = Returned([north |-> MAX_LATITUDE, east |-> Zero,
                                  south |-> MIN_LATITUDE, west |-> MIN_LONGITUDE])

\* get_bbox() of tile (0, 1) has returned the western hemisphere.
C10_Witness ==
    /\ ret.op = "get_bbox"
    /\ tile.level = 0 /\ tile.tile_number = One
    /\ ret.out.exc = "none"
    /\ ret.out.value.west = MIN_LONGITUDE

\* C11: grid coordinate range.  For every tile with level in 1..15 and tile
\* number in range, get_tile_grid_coordinates() returns [col, row] with
\* -2^level <= col < 2^level and -2^(level-1) <= row < 2^(level-1).
C11_GridRange ==
    (ret.op = "get_tile_grid_coordinates" /\ ValidTile(tile) /\ tile.level >= 1)
        => /\ ret.out.exc = "none"
           /\ PyLe(PyNeg(Pow2(tile.level)), ret.out.value[1])
           /\ PyLt(ret.out.value[1], Pow2(tile.level))
           /\ PyLe(PyNeg(Pow2(tile.level - 1)), ret.out.value[2])
           /\ PyLt(ret.out.value[2], Pow2(tile.level - 1))

\* The last tile of level 15 has the grid coordinates [-1, -1].
C11_Witness ==
    /\ ret.op = "get_tile_grid_coordinates"
    /\ tile.level = MAX_LEVEL
    /\ tile.tile_number = MaxTileNumber(MAX_LEVEL)
    /\ ret.out = Returned(<<MinusOne, MinusOne>>)

\* C12, as the code has it: the grid coordinates of tile (1, 4) are
\* [-2, 0], those of tile (1, 0) and of tile (2, 0) are [0, 0].
C12_GridExample ==
    ret.op = "get_tile_grid_coordinates"
        => /\ (tile.level = 1 /\ tile.tile_number = FromInt(4))
                  => ret.out = Returned(<<FromInt(-2), Zero>>)
           /\ (tile.level \in {1, 2} /\ tile.tile_number = Zero)
                  => ret.out = Returned(<<Zero, Zero>>)

\* get_tile_grid_coordinates() of tile (1, 4) has returned.
C12_Witness ==
    /\ ret.op = "get_tile_grid_coordinates"
    /\ tile.level = 1 /\ tile.tile_number = FromInt(4)
    /\ ret.out.exc = "none"

\* C12 as stated: the grid coordinates of tile (1, 4) are [-2, -1], those of
\* tile (1, 0) and of tile (2, 0) are [0, 0].
C12_GridExampleAsStated ==
    ret.op = "get_tile_grid_coordinates"
        => /\ (tile.level = 1 /\ tile.tile_number = FromInt(4))
                  => ret.out = Returned(<<FromInt(-2), MinusOne>>)
           /\ (tile.level \in {1, 2} /\ tile.tile_number = Zero)
                  => ret.out = Returned(<<Zero, Zero>>)

\* C13: packed_id() is the inverse of the construction from a packed id.  For
\* every packed id p, positive or negative, from which NDSTile(p) returns a
\* tile, the packed_id() of that tile is p.
C13_PackedIdInverse ==
    (ret.op = "NDSTile_packed" /\ ret.out.exc = "none")
        => packed_id(ret.out.value) = Returned(ret.packed_id)

\* What x - q * d leaves, for a candidate quotient q of x by d
Remainder(q, x, d) == PySub(x, PyMul(q, d))

\* q is x / d truncated toward zero, for d > 0
IsTruncated(q, x, d) ==
    IF PyLe(Zero, x)
    THEN PyLe(Zero, Remainder(q, x, d)) /\ PyLt(Remainder(q, x, d), FromInt(d))
    ELSE PyLt(FromInt(-d), Remainder(q, x, d)) /\ PyLe(Remainder(q, x, d), Zero)

\* q is floor(x / d), for d > 0
IsFloor(q, x, d) ==
    PyLe(Zero, Remainder(q, x, d)) /\ PyLt(Remainder(q, x, d), FromInt(d))

\* C14, as the code has it: for every longitude in [-180, 180] and latitude
\* in [-90, 90], given in half degrees, the construction from degrees returns
\* longitude = longitude / 360 * (2^32 - 1) and latitude = latitude / 180 *
\* (2^31 - 1), both truncated toward zero.
C14_DegreeConversion ==
    (/\ ret.op = "NDSCoordinate_degrees"
     /\ ret.lon \in -360..360 /\ ret.lat \in -180..180)
        => /\ ret.out.exc = "none"
           /\ IsTruncated(ret.out.value.longitude,
                          PyMul(PySub(Pow2(32), One), ret.lon), 720)
           /\ IsTruncated(ret.out.value.latitude,
                          PyMul(PySub(Pow2(31), One), ret.lat), 360)

\* NDSCoordinate(-90.0, 45.0) has returned the longitude -1073741823, one
\* above floor(-1073741823.75).
C14_Witness ==
    /\ ret.op = "NDSCoordinate_degrees"
    /\ ret.lon = -180 /\ ret.lat = 90
    /\ ret.out.exc = "none"
    /\ ret.out.value.longitude = FromInt(-1073741823)
    /\ ret.out.value.latitude = FromInt(536870911)

\* C14 as stated: the construction from degrees returns
\* longitude = floor(longitude / 360 * (2^32 - 1)) and
\* latitude = floor(latitude / 180 * (2^31 - 1)).
C14_DegreeConversionAsStated ==
    (/\ ret.op = "NDSCoordinate_degrees"
     /\ ret.lon \in -360..360 /\ ret.lat \in -180..180)
        => /\ ret.out.exc = "none"
           /\ IsFloor(ret.out.value.longitude,
                      PyMul(PySub(Pow2(32), One), ret.lon), 720)
           /\ IsFloor(ret.out.value.latitude,
                      PyMul(PySub(Pow2(31), One), ret.lat), 360)

\* Two's complement reduction of x to [-2^31, 2^31 - 1]
Wrap32(x) == PySub(x, PyShl(PyShr(PyAdd(x, Pow2(31)), 32), 32))

\* What add is to give for the wrapped sums lon and lat
AddOutcome(out, lon, lat) ==
    IF PyLt(lat, MIN_LATITUDE)
    THEN out.exc # "none"
    ELSE out = Returned(Coordinate(PyMin(lon, MAX_LONGITUDE),
                                   PyMin(lat, MAX_LATITUDE)))

\* C15: every call c.add(dlon, dlat) leaves c as it was, and it returns the
\* coordinate (min(wrap32(c.longitude + dlon), MAX_LONGITUDE),
\* min(wrap32(c.latitude + dlat), MAX_LATITUDE)), or raises exactly when
\* wrap32(c.latitude + dlat) < MIN_LATITUDE.
C15_Add ==
    [][(ret.op = "idle" /\ ret'.op = "add")
           => /\ coord' = coord
              /\ AddOutcome(ret'.out,
                            Wrap32(PyAdd(coord.longitude, ret'.delta_longitude)),
                            Wrap32(PyAdd(coord.latitude, ret'.delta_latitude)))]_vars

\* (MAX_LONGITUDE, 0).add(1, -1) has returned (MIN_LONGITUDE, -1) and the
\* coordinate is as it was.
C15_Witness ==
    /\ ret.op = "add"
    /\ coord = Coordinate(MAX_LONGITUDE, Zero)
    /\ ret.delta_longitude = One /\ ret.delta_latitude = MinusOne
    /\ ret.out = Returned(Coordinate(MIN_LONGITUDE, MinusOne))

\* C16: get_center() is memoized.  For every valid tile, once get_center()
\* has returned, the tile's center field holds the coordinate it returned.
C16_CenterMemoized ==
    (ret.op = "get_center" /\ ValidTile(tile) /\ ret.out.exc = "none")
        => tile.center = ret.out.value

\* c lies within the bounds of the box b, the bounds included
InBBox(b, c) ==
    /\ PyLe(b.south, c.latitude) /\ PyLe(c.latitude, b.north)
    /\ PyLe(b.west, c.longitude) /\ PyLe(c.longitude, b.east)

\* C17: the bounding box agrees with containment.  For every valid tile and
\* coordinate c, contains(c) is true exactly when c lies within get_bbox().
C17_BBoxContainment ==
    (ret.op = "contains" /\ ValidTile(tile) /\ InDomain(ret.c))
        => /\ get_bbox(tile).exc = "none"
           /\ ret.out = Returned(InBBox(get_bbox(tile).value, ret.c))

\* C18: the center lies inside its tile.  For every valid tile get_center()
\* returns a coordinate, and the tile contains it.
C18_CenterInTile ==
    (ret.op = "get_center" /\ ValidTile(tile))
        => /\ ret.out.exc = "none"
           /\ contains(tile, ret.out.value) = Returned(TRUE)

\* get_center() of the last tile of level 15, whose south-west corner is
\* (-2^16, -2^16), has returned (-2^15, -2^15).
C18_Witness ==
    /\ ret.op = "get_center"
    /\ tile.level = MAX_LEVEL
    /\ tile.tile_number = MaxTileNumber(MAX_LEVEL)
    /\ ret.out = Returned(Coordinate(PyNeg(Pow2(15)), PyNeg(Pow2(15))))

\* C19, as the code has it: for every valid tile of level 1..15, get_center()
\* is equal to get_bbox().center(); at level 0 the longitudes are equal, the
\* latitude of get_center() is 0 and the one of get_bbox().center() is -1.
C19_CenterAgreement ==
    (ret.op = "get_center" /\ ValidTile(tile))
        => IF tile.level >= 1
           THEN ret.out = center(get_bbox(tile).value)
           ELSE /\ ret.out.exc = "none"
                /\ ret.out.value.longitude
                       = center(get_bbox(tile).value).value.longitude
                /\ ret.out.value.latitude = Zero
                /\ center(get_bbox(tile).value).value.latitude = MinusOne

\* get_center() of tile (1, 7), whose south-west corner is negative on both
\* axes, has returned the center of its bounding box.
C19_Witness ==
    /\ ret.op = "get_center"
    /\ tile.level = 1 /\ tile.tile_number = FromInt(7)
    /\ ret.out.exc = "none"
    /\ PyLt(get_bbox(tile).value.west, Zero)
    /\ PyLt(get_bbox(tile).value.south, Zero)
    /\ ret.out = center(get_bbox(tile).value)

\* C19 as stated: for every valid tile of level 0..15, get_center() is equal
\* to get_bbox().center().
C19_CenterAgreementAsStated ==
    (ret.op = "get_center" /\ ValidTile(tile))
        => ret.out = center(get_bbox(tile).value)

====
